---- MODULE Spec2Model ----
(***************************************************************************)
(* Segment detection (lib/pathutils.py, _detect_segments) and the causal   *)
(* trajectory correction recurrence (tests/pathplanning/                   *)
(* path_correction.py, main and generate_gate_pos) of surgical-sim.        *)
(*                                                                         *)
(* A path is a dense matrix: a sequence of rows, each row a sequence of    *)
(* numbers.  Numbers are IEEE-like values: an exact rational <<n, d>> with *)
(* d > 0 in lowest terms, or +inf <<1, 0>>, -inf <<-1, 0>>, nan <<0, 0>>.  *)
(* Only the square root rounds (to a grid of 1/SqrtDen, exact on perfect   *)
(* squares); every other operation is exact.                               *)
(***************************************************************************)
EXTENDS Integers, Sequences, FiniteSets, TLC

(* ------------------------------ bounds --------------------------------- *)
\* Longest path (rows) the model enumerates.
MaxLen == 3
\* Largest configured gate count the model enumerates.
MaxGates == 3
\* Resolution of the rounded square root: results are multiples of 1/SqrtDen.
SqrtDen == 100
\* Resolution of the slider values: multiples of 1/SliderDen.
SliderDen == 2

(* ----------------------- column layout constants ----------------------- *)
\* surgicalsim.lib.constants: [time, gate_1..gate_G (3 each), tooltip (3), rating?]
G_TIME_IDX == 0
G_GATE_IDX == 1
G_NUM_GATE_DIMS == 3
G_NUM_POS_DIMS == 3

(* ------------------------------ numbers -------------------------------- *)
Abs(n) == IF n < 0 THEN -n ELSE n
Sign(n) == IF n > 0 THEN 1 ELSE IF n < 0 THEN -1 ELSE 0

RECURSIVE GCD(_, _)
GCD(a, b) == IF b = 0 THEN a ELSE GCD(b, a % b)

\* The value n/d (d may be 0 or negative) in canonical form.
Rat(n, d) ==
    IF d = 0 THEN <<Sign(n), 0>>
    ELSE IF d = 1 THEN <<n, 1>>
    ELSE LET g == GCD(Abs(n), Abs(d))
             s == IF d < 0 THEN -1 ELSE 1
         IN  <<(s * n) \div g, (s * d) \div g>>

NaN == <<0, 0>>
Zero == <<0, 1>>
One == <<1, 1>>
IsNaN(a) == a = NaN
IsInf(a) == a[2] = 0 /\ a[1] # 0
IntVal(k) == <<k, 1>>

FNeg(a) == <<-a[1], a[2]>>

FAdd(a, b) ==
    IF IsNaN(a) \/ IsNaN(b) THEN NaN
    ELSE IF IsInf(a) /\ IsInf(b) THEN (IF a = b THEN a ELSE NaN)
    ELSE IF IsInf(a) THEN a
    ELSE IF IsInf(b) THEN b
    ELSE Rat(a[1] * b[2] + b[1] * a[2], a[2] * b[2])

FSub(a, b) == FAdd(a, FNeg(b))

FMul(a, b) ==
    IF IsNaN(a) \/ IsNaN(b) THEN NaN
    ELSE IF IsInf(a) \/ IsInf(b)
         THEN <<Sign(a[1]) * Sign(b[1]), 0>>     \* inf * 0 = nan
    ELSE Rat(a[1] * b[1], a[2] * b[2])

\* Division of numpy floats: x/0 is +-inf, 0/0 is nan (a warning, no exception).
FDiv(a, b) ==
    IF IsNaN(a) \/ IsNaN(b) THEN NaN
    ELSE IF IsInf(b) THEN (IF IsInf(a) THEN NaN ELSE Zero)
    ELSE IF IsInf(a) THEN <<a[1] * (IF b[1] < 0 THEN -1 ELSE 1), 0>>
    ELSE IF b[1] = 0 THEN <<Sign(a[1]), 0>>
    ELSE Rat(a[1] * b[2], a[2] * b[1])

\* a <= b; false when either is nan.
FLe(a, b) ==
    IF IsNaN(a) \/ IsNaN(b) THEN FALSE
    ELSE IF IsInf(a) THEN (a[1] < 0 \/ a = b)
    ELSE IF IsInf(b) THEN b[1] > 0
    ELSE a[1] * b[2] <= b[1] * a[2]

FLt(a, b) == FLe(a, b) /\ a # b
\* a == b of numpy floats: false when either is nan.
FEq(a, b) == ~IsNaN(a) /\ ~IsNaN(b) /\ a = b

RECURSIVE ISqrt(_)
\* floor of the square root of a natural number
ISqrt(n) ==
    IF n < 2 THEN n
    ELSE LET s == 2 * ISqrt(n \div 4)
         IN  IF (s + 1) * (s + 1) <= n THEN s + 1 ELSE s

IsSquare(n) == ISqrt(n) * ISqrt(n) = n

\* np.sqrt of a non-negative value: exact on squares of rationals, otherwise
\* rounded down to the grid 1/SqrtDen.
FSqrt(a) ==
    IF IsNaN(a) \/ IsInf(a) THEN a
    ELSE IF IsSquare(a[1]) /\ IsSquare(a[2]) THEN <<ISqrt(a[1]), ISqrt(a[2])>>
    ELSE LET whole == a[1] \div a[2]
             frac == a[1] % a[2]
             scaled == whole * SqrtDen * SqrtDen + (frac * SqrtDen * SqrtDen) \div a[2]
         IN  Rat(ISqrt(scaled), SqrtDen)

\* np.clip(x, lo, hi) on a scalar: nan passes through.
Clip(x, lo, hi) ==
    IF IsNaN(x) THEN NaN
    ELSE IF FLt(x, lo) THEN lo
    ELSE IF FLt(hi, x) THEN hi
    ELSE x

(* ------------------------------ vectors -------------------------------- *)
\* numpy broadcasting of two 1-d arrays: equal lengths, or one of length 1.
Broadcastable(u, v) == Len(u) = Len(v) \/ Len(u) = 1 \/ Len(v) = 1

BLen(u, v) == IF Len(u) >= Len(v) THEN Len(u) ELSE Len(v)
At(u, k) == IF Len(u) = 1 THEN u[1] ELSE u[k]

\* Arrays are built entry by entry, as tuples.
RECURSIVE VAddFrom(_, _, _)
VAddFrom(u, v, k) ==
    IF k > BLen(u, v) THEN <<>>
    ELSE <<FAdd(At(u, k), At(v, k))>> \o VAddFrom(u, v, k + 1)
VAdd(u, v) == VAddFrom(u, v, 1)

RECURSIVE VNeg(_)
VNeg(u) == IF u = <<>> THEN <<>> ELSE <<FNeg(Head(u))>> \o VNeg(Tail(u))
VSub(u, v) == VAdd(u, VNeg(v))

RECURSIVE VScale(_, _)
VScale(u, c) == IF u = <<>> THEN <<>> ELSE <<FMul(Head(u), c)>> \o VScale(Tail(u), c)

RECURSIVE VDivS(_, _)
VDivS(u, c) == IF u = <<>> THEN <<>> ELSE <<FDiv(Head(u), c)>> \o VDivS(Tail(u), c)

RECURSIVE SumSq(_)
SumSq(u) == IF u = <<>> THEN Zero ELSE FAdd(FMul(Head(u), Head(u)), SumSq(Tail(u)))

\* np.linalg.norm of a 1-d array
VNorm(u) == FSqrt(SumSq(u))

ZeroVec == <<Zero, Zero, Zero>>
Vec(x, y, z) == <<IntVal(x), IntVal(y), IntVal(z)>>
VecIsNaN(u) == \E k \in 1..Len(u) : IsNaN(u[k])
\* np.array_equal(u, v): same length and every entry equal.
VEq(u, v) == Len(u) = Len(v) /\ \A k \in 1..Len(u) : FEq(u[k], v[k])

(* --------------------------- configuration ---------------------------- *)
\* path_correction.py: total duration [s], acceleration limit [m/s^2] and the
\* gate oscillation frequency [cycles per t_total].
t_total == 20
a_max == 1
GateFreq == 4
\* Time column grid: times are multiples of 1/TimeDen, so that 2*pi*f*t/t_total
\* is always a multiple of a quarter turn and the sine is exact.
TimeDen == 4 * GateFreq

\* The configuration of path_correction.py as written.
CodeConfig == [t_total |-> IntVal(t_total), a_max |-> IntVal(a_max), amp |-> Rat(2, 100)]
\* The configuration of the passthrough scenario: T = 1, A = 0, a_max = 100.
ScenarioConfig == [t_total |-> One, a_max |-> IntVal(100), amp |-> Zero]
Configs == {CodeConfig, ScenarioConfig}

VARIABLES
    G_NUM_GATES,    \* configured gate count (constants.G_NUM_GATES)
    cfg,            \* t_total, a_max, amp
    path,           \* the recorded path: a sequence of rows
    pc,             \* "detect", "correct", "done" or "error"
    err,            \* the exception that ended the run, or "none"
    cur_gate,       \* _detect_segments: loop variable
    segment_ends,   \* _detect_segments: result list (0-based row indices)
    i,              \* main: loop variable (0-based)
    x_path_offset,  \* main: cumulative offset
    v_curr,         \* main: velocity carried to the next step
    new_path,       \* main: corrected positions emitted so far
    seg_idx,        \* main: segment index of the last step
    dt,             \* main: time step of the last step
    a_new,          \* main: clamped acceleration of the last step
    g_start_trim_index, \* pathutils.__g_start_trim_index
    g_end_trim_index,   \* pathutils.__g_end_trim_index
    g_trim_ok,          \* pathutils.__g_trim_ok
    trim_pc,            \* trim_path: "idle", "shown" (in plt.show) or "closed"
    trim_arg,           \* trim_path: the path of the current (or last) call
    trim_ret,           \* trim_path: the path the last call returned
    trim_clicked,       \* the Trim button was clicked during the current (or last) call
    slider_start_val,   \* slider_start.val, in units of 1/SliderDen
    slider_end_val      \* slider_end.val, in units of 1/SliderDen

trim_vars == <<g_start_trim_index, g_end_trim_index, g_trim_ok, trim_pc, trim_arg,
               trim_ret, trim_clicked, slider_start_val, slider_end_val>>
main_vars == <<G_NUM_GATES, cfg, path, pc, err, cur_gate, segment_ends, i,
               x_path_offset, v_curr, new_path, seg_idx, dt, a_new>>
vars == <<main_vars, trim_vars>>

\* First tooltip column: the gates come first, three columns each.
G_POS_IDX == G_GATE_IDX + G_NUM_GATES * G_NUM_GATE_DIMS

(* ------------------------------ matrices ------------------------------- *)
Min(a, b) == IF a <= b THEN a ELSE b

\* row[lo:hi] of Python: 0-based, hi exclusive (hi < 0: to the end), cut at the
\* row's width without an error.
Slice(row, lo, hi) ==
    LET top == IF hi < 0 THEN Len(row) ELSE Min(hi, Len(row))
    IN  IF lo >= top THEN <<>> ELSE SubSeq(row, lo + 1, top)

\* data[r, c] with 0-based r and c
Cell(data, r, c) == data[r + 1][c + 1]

(* --------------------------- _detect_segments -------------------------- *)
\* The diagonal of the distance matrix: every row of XA against the same row
\* of XB.
DistSameRow(XA, XB) == [r \in 1..Len(XA) |-> VNorm(VSub(XA[r], XB[r]))]

\* scipy cdist(XA, XB, 'euclidean')[:, 0]: the distance of every row of XA to the
\* FIRST row of XB.
DistColumn0(XA, XB) == [r \in 1..Len(XA) |-> VNorm(VSub(XA[r], XB[1]))]

\* cdist raises ValueError unless XA and XB have the same number of columns.
CdistRaises(XA, XB) == Len(XA[1]) # Len(XB[1])

\* np.argmin scans once and keeps the first smallest entry; 0-based result.
RECURSIVE ArgMinScan(_, _, _)
ArgMinScan(dist, k, best) ==
    IF k > Len(dist) THEN best - 1
    ELSE IF FLt(dist[k], dist[best]) THEN ArgMinScan(dist, k + 1, k)
    ELSE ArgMinScan(dist, k + 1, best)

\* A scan that replaces the kept entry on <= returns the last smallest entry.
RECURSIVE ArgMinLastScan(_, _, _)
ArgMinLastScan(dist, k, best) ==
    IF k > Len(dist) THEN best - 1
    ELSE IF FLe(dist[k], dist[best]) THEN ArgMinLastScan(dist, k + 1, k)
    ELSE ArgMinLastScan(dist, k + 1, best)
ArgMinLast(dist) == ArgMinLastScan(dist, 2, 1)

ArgMin(dist) == ArgMinScan(dist, 2, 1)

TooltipColumns(data) == [r \in 1..Len(data) |-> Slice(data[r], G_POS_IDX, -1)]

GateColumns(data, gate) ==
    LET cur_gate_start == G_GATE_IDX + gate * 3
        cur_gate_end == cur_gate_start + G_NUM_GATE_DIMS
    IN  [r \in 1..Len(data) |-> Slice(data[r], cur_gate_start, cur_gate_end)]

\* One iteration of the loop over the gates.
DetectGate ==
    /\ pc = "detect"
    /\ cur_gate < G_NUM_GATES
    /\ IF cur_gate = G_NUM_GATES - 1
       THEN /\ segment_ends' = Append(segment_ends, Len(path))
            /\ cur_gate' = cur_gate + 1
            /\ pc' = "correct"
            /\ err' = err
       ELSE IF CdistRaises(TooltipColumns(path), GateColumns(path, cur_gate))
       THEN /\ pc' = "error"
            /\ err' = "ValueError"
            /\ UNCHANGED <<segment_ends, cur_gate>>
       ELSE /\ segment_ends' = Append(segment_ends,
                   ArgMin(DistColumn0(TooltipColumns(path), GateColumns(path, cur_gate))))
            /\ cur_gate' = cur_gate + 1
            /\ UNCHANGED <<pc, err>>
    /\ UNCHANGED <<G_NUM_GATES, cfg, path, i, x_path_offset, v_curr, new_path,
                   seg_idx, dt, a_new>>
    /\ UNCHANGED trim_vars

(* -------------------------- generate_gate_pos -------------------------- *)
\* sin(2*pi*turns) for turns a multiple of a quarter turn (the time grid
\* guarantees it).
SinTurns(turns) ==
    LET q == FMul(IntVal(4), turns)
    IN  CASE q[2] = 1 /\ q[1] % 4 = 0 -> Zero
          [] q[2] = 1 /\ q[1] % 4 = 1 -> One
          [] q[2] = 1 /\ q[1] % 4 = 2 -> Zero
          [] q[2] = 1 /\ q[1] % 4 = 3 -> FNeg(One)

\* The gate columns of row 0 as generate_gate_pos slices them.
GateSlice(data, segment_num) ==
    LET gate_start_col == G_GATE_IDX + G_NUM_GATE_DIMS * segment_num
        gate_end_col == gate_start_col + G_NUM_POS_DIMS
    IN  Slice(data[1], gate_start_col, gate_end_col)

\* gate_pos += [0, 0.02*sin(2*pi*f*t/t_total), 0] is in place: it raises
\* ValueError unless the slice has three entries.
GatePosRaises(data, segment_num) == Len(GateSlice(data, segment_num)) # 3

generate_gate_pos(t, data, segment_num, c) ==
    LET turns == FDiv(FMul(IntVal(GateFreq), t), c.t_total)
    IN  VAdd(GateSlice(data, segment_num), <<Zero, FMul(c.amp, SinTurns(turns)), Zero>>)

(* ------------------------------- main ---------------------------------- *)
\* The loop of lines 37-40 without its break: the last j with idx <= segments[j].
RECURSIVE SegLoopNoBreak(_, _, _, _)
SegLoopNoBreak(idx, segments, j, found) ==
    IF j > Len(segments) THEN found
    ELSE SegLoopNoBreak(idx, segments, j + 1, IF idx <= segments[j] THEN j - 1 ELSE found)
DetectCurrentSegmentNoBreak(idx, segments) == SegLoopNoBreak(idx, segments, 1, 0)

\* Lines 35-40: the first j with idx <= segments[j], 0 when the loop finds none.
RECURSIVE SegLoop(_, _, _)
SegLoop(idx, segments, j) ==
    IF j > Len(segments) THEN 0
    ELSE IF idx <= segments[j] THEN j - 1
    ELSE SegLoop(idx, segments, j + 1)

DetectCurrentSegment(idx, segments) == SegLoop(idx, segments, 1)

\* Tooltip columns of row r (0-based) plus the running offset.
PosSlice(data, r) == Slice(data[r + 1], G_POS_IDX, G_POS_IDX + G_NUM_POS_DIMS)

\* The exception one loop iteration raises, in the order the lines run.
StepError(data, segments, idx, off) ==
    LET seg == DetectCurrentSegment(idx, segments)
    IN  IF ~Broadcastable(PosSlice(data, idx), off) THEN "ValueError"           \* line 46
        ELSE IF segments[seg + 1] >= Len(data) THEN "IndexError"                \* line 55
        ELSE IF GatePosRaises(data, seg) THEN "ValueError"                      \* line 121
        ELSE "none"

\* np.clip of the norm and the rescaling of the acceleration (lines 70-79).
ClampAcceleration(a, limit) ==
    LET a_new_norm == VNorm(a)
        a_new_norm_clipped == Clip(a_new_norm, FNeg(limit), limit)
        ratio_unclipped == FDiv(a_new_norm_clipped, a_new_norm)
    IN  VScale(a, ratio_unclipped)

\* The locals of one loop iteration that raises nothing (lines 43-98).
StepLocals(data, segments, c, idx, off, v_prev) ==
    LET seg == DetectCurrentSegment(idx, segments)
        t_curr == FMul(Cell(data, idx, G_TIME_IDX), c.t_total)
        t_next == FMul(Cell(data, idx + 1, G_TIME_IDX), c.t_total)
        x_curr == VAdd(PosSlice(data, idx), off)
        x_next == VAdd(PosSlice(data, idx + 1), off)
        step_dt == FSub(t_next, t_curr)
        dx == VSub(x_next, x_curr)
        x_target == VAdd(PosSlice(data, segments[seg + 1]), off)
        x_gate == generate_gate_pos(t_curr, data, seg, c)
        x_new0 == VAdd(x_next, VSub(x_gate, x_target))
        v_new0 == VDivS(VSub(x_new0, x_curr), step_dt)
        a_new0 == VDivS(VSub(v_new0, v_prev), step_dt)
        a_clamped == ClampAcceleration(a_new0, c.a_max)
        dv_new == VScale(a_clamped, step_dt)
        v_new == VAdd(v_prev, dv_new)
        dx_new == VScale(v_new, step_dt)
        x_new == VAdd(x_curr, dx_new)
    IN  [seg_idx |-> seg, dt |-> step_dt, x_curr |-> x_curr, x_next |-> x_next,
         x_target |-> x_target, x_gate |-> x_gate, a_unclipped |-> a_new0,
         a_new |-> a_clamped, v_new |-> v_new, x_new |-> x_new,
         offset |-> VAdd(off, VSub(dx_new, dx))]

\* One iteration of the loop over the rows.
CorrectStep ==
    /\ pc = "correct"
    /\ i < Len(path)
    /\ IF i = Len(path) - 1
       THEN /\ pc' = "done"
            /\ i' = i + 1
            /\ UNCHANGED <<err, x_path_offset, v_curr, new_path, seg_idx, dt, a_new>>
       ELSE IF StepError(path, segment_ends, i, x_path_offset) # "none"
       THEN /\ pc' = "error"
            /\ err' = StepError(path, segment_ends, i, x_path_offset)
            /\ seg_idx' = DetectCurrentSegment(i, segment_ends)
            /\ UNCHANGED <<i, x_path_offset, v_curr, new_path, dt, a_new>>
       ELSE \E s \in {StepLocals(path, segment_ends, cfg, i, x_path_offset, v_curr)} :
                /\ new_path' = Append(new_path, s.x_new)
                /\ v_curr' = s.v_new
                /\ x_path_offset' = s.offset
                /\ seg_idx' = s.seg_idx
                /\ dt' = s.dt
                /\ a_new' = s.a_new
                /\ i' = i + 1
                /\ UNCHANGED <<pc, err>>
    /\ UNCHANGED <<G_NUM_GATES, cfg, path, cur_gate, segment_ends>>
    /\ UNCHANGED trim_vars

(* ----------------------------- rate_segments --------------------------- *)
\* The half-open ranges [segment_start, segment_end) rate_segments walks: the
\* first starts at 0, each next one at the end of the one before.
RECURSIVE RangesFrom(_, _, _)
RangesFrom(ends, k, segment_start) ==
    IF k > Len(ends) THEN <<>>
    ELSE <<<<segment_start, ends[k]>>>> \o RangesFrom(ends, k + 1, ends[k])

SegmentRanges(ends) == RangesFrom(ends, 1, 0)

(* ------------------------------ trim_path ------------------------------ *)
\* The module globals as set when pathutils is imported (lines 34-36); no call
\* of trim_path is in progress.
TrimLoaded ==
    /\ g_start_trim_index = 0
    /\ g_end_trim_index = 0
    /\ g_trim_ok = FALSE
    /\ trim_pc = "idle"
    /\ trim_arg = <<>>
    /\ trim_ret = <<>>
    /\ trim_clicked = FALSE
    /\ slider_start_val = 0
    /\ slider_end_val = 0

\* int(round(val)) of a slider value k/SliderDen >= 0: half rounds away from zero.
RoundIndex(k) == (2 * k + SliderDen) \div (2 * SliderDen)

\* data[lo:hi] for 0 <= lo, 0 <= hi
RowSlice(data, lo, hi) ==
    IF lo >= Min(hi, Len(data)) THEN <<>> ELSE SubSeq(data, lo + 1, Min(hi, Len(data)))

\* trim_path(p) up to plt.show(): the indices are reset, the flag is not.
TrimCall(p) ==
    /\ trim_pc = "idle"
    /\ trim_arg' = p
    /\ g_start_trim_index' = 0
    /\ g_end_trim_index' = Len(p) - 1
    /\ slider_start_val' = 0
    /\ slider_end_val' = (Len(p) - 1) * SliderDen
    /\ trim_clicked' = FALSE
    /\ trim_pc' = "shown"
    /\ UNCHANGED <<g_trim_ok, trim_ret>>
    /\ UNCHANGED main_vars

\* The Start slider is moved to k/SliderDen: valmin = 0, valmax = len(path)
\* (open), slidermax = slider_end.
start_changed(k) ==
    /\ trim_pc = "shown"
    /\ 0 <= k /\ k < Len(trim_arg) * SliderDen
    /\ k <= slider_end_val
    /\ slider_start_val' = k
    /\ g_start_trim_index' = RoundIndex(k)
    /\ UNCHANGED <<g_end_trim_index, g_trim_ok, trim_pc, trim_arg, trim_ret,
                   trim_clicked, slider_end_val>>
    /\ UNCHANGED main_vars

\* The End slider is moved to k/SliderDen: valmin = 0 (open),
\* valmax = len(path) - 2, slidermin = slider_start.
end_changed(k) ==
    /\ trim_pc = "shown"
    /\ 0 < k /\ k <= (Len(trim_arg) - 2) * SliderDen
    /\ k >= slider_start_val
    /\ slider_end_val' = k
    /\ g_end_trim_index' = RoundIndex(k)
    /\ UNCHANGED <<g_start_trim_index, g_trim_ok, trim_pc, trim_arg, trim_ret,
                   trim_clicked, slider_start_val>>
    /\ UNCHANGED main_vars

\* The Trim button: sets the flag and closes the window.
button_clicked ==
    /\ trim_pc = "shown"
    /\ g_trim_ok' = TRUE
    /\ trim_clicked' = TRUE
    /\ trim_pc' = "closed"
    /\ UNCHANGED <<g_start_trim_index, g_end_trim_index, trim_arg, trim_ret,
                   slider_start_val, slider_end_val>>
    /\ UNCHANGED main_vars

\* The user closes the window without the Trim button.
WindowClosed ==
    /\ trim_pc = "shown"
    /\ trim_pc' = "closed"
    /\ UNCHANGED <<g_start_trim_index, g_end_trim_index, g_trim_ok, trim_arg,
                   trim_ret, trim_clicked, slider_start_val, slider_end_val>>
    /\ UNCHANGED main_vars

\* plt.show() has returned: lines 212-215.
TrimReturn ==
    /\ trim_pc = "closed"
    /\ trim_ret' = IF g_trim_ok
                   THEN RowSlice(trim_arg, g_start_trim_index, g_end_trim_index)
                   ELSE trim_arg
    /\ trim_pc' = "idle"
    /\ UNCHANGED <<g_start_trim_index, g_end_trim_index, g_trim_ok, trim_arg,
                   trim_clicked, slider_start_val, slider_end_val>>
    /\ UNCHANGED main_vars

(* ---------------------------- recorded paths --------------------------- *)
\* Recorded gate and tooltip positions the model draws rows from.  A path is
\* drawn along one axis: axis 0 (x), or axis 1 (y), the axis the gate
\* oscillates along; every norm is then the square root of a perfect square.
AxisVec(axis, k) == IF axis = 0 THEN Vec(k, 0, 0) ELSE Vec(0, k, 0)
GateVals(axis) == {AxisVec(axis, 0), AxisVec(axis, 2)}
PosVals(axis) == {AxisVec(axis, 0), AxisVec(axis, 1), AxisVec(axis, 2)}
\* The recorded gates of one row, g of them: the first two non-last gates are
\* drawn from GateVals, the others (the last gate among them, whose position
\* no step that emits a position reads) sit at the origin.
GateRows(g, axis) ==
    {[q \in 1..g |-> IF q < g /\ q <= 2 THEN free[q] ELSE AxisVec(axis, 0)] :
        free \in [1..2 -> GateVals(axis)]}
\* Differences between the time ticks (1/TimeDen) of consecutive rows, n rows:
\* one tick each, except that at most one difference is zero (a duplicate
\* timestamp) or negative (a decreasing one).
TickDiffs(n) ==
    {[k \in 1..(n - 1) |-> 1]} \cup
    {[k \in 1..(n - 1) |-> IF k = at THEN d ELSE 1] : at \in 1..(n - 1), d \in {-1, 0}}

RECURSIVE Flatten(_)
Flatten(vs) == IF vs = <<>> THEN <<>> ELSE Head(vs) \o Flatten(Tail(vs))

\* One row: [time, gates (3 each), tooltip (3), rating?]
MkRow(tick, gates, x, rated) ==
    <<Rat(tick, TimeDen)>> \o Flatten(gates) \o x \o (IF rated THEN <<One>> ELSE <<>>)

RECURSIVE TickAt(_, _)
TickAt(incs, k) == IF k = 1 THEN 0 ELSE TickAt(incs, k - 1) + incs[k - 1]

\* The other recorded position of a gate (a gate that moved between samples).
Moved(g) == IF g = Vec(0, 0, 0) THEN Vec(2, 0, 0) ELSE Vec(0, 0, 0)

Start(g, c, data) ==
    /\ G_NUM_GATES = g
    /\ cfg = c
    /\ path = data
    /\ pc = "detect"
    /\ err = "none"
    /\ cur_gate = 0
    /\ segment_ends = <<>>
    /\ i = 0
    /\ x_path_offset = ZeroVec
    /\ v_curr = ZeroVec
    /\ new_path = <<>>
    /\ seg_idx = 0
    /\ dt = Zero
    /\ a_new = ZeroVec
    /\ TrimLoaded

\* Paths with the configured layout and static gates, along the oscillation
\* axis; timestamps one tick apart or degenerate; the configuration of the code.
InitTimed ==
    \E g \in 1..MaxGates, n \in 1..MaxLen :
      \E gs \in GateRows(g, 1), xs \in [1..n -> PosVals(1)], incs \in TickDiffs(n) :
        Start(g, CodeConfig, [k \in 1..n |-> MkRow(TickAt(incs, k), gs, xs[k], FALSE)])

\* Paths with the configured layout whose recorded gate positions move from
\* row m on (never, for m = n + 1); half-second timestamps (the gate
\* displacement is zero at each of them); either configuration.
InitMoving ==
    \E g \in 1..MaxGates, n \in 1..MaxLen, c \in Configs :
      \E gs \in GateRows(g, 0), xs \in [1..n -> PosVals(0)], m \in 2..(n + 1) :
        Start(g, c,
              [k \in 1..n |->
                  MkRow(8 * (k - 1),
                        [q \in 1..g |-> IF k >= m THEN Moved(gs[q]) ELSE gs[q]],
                        xs[k], FALSE)])

\* Paths whose layout differs from the configured one: fewer gates encoded
\* than G_NUM_GATES, or a trailing rating column.
InitLayout ==
    \E g \in 1..MaxGates, n \in 1..MaxLen, rated \in BOOLEAN :
      \E enc \in 0..g, xs \in [1..n -> PosVals(0)] :
        /\ enc < g \/ rated
        /\ Start(g, CodeConfig,
                 [k \in 1..n |->
                     MkRow(8 * (k - 1), [q \in 1..enc |-> AxisVec(0, 2)], xs[k], rated)])

Init == InitTimed \/ InitMoving \/ InitLayout

Next == DetectGate \/ CorrectStep

Spec == Init /\ [][Next]_vars

\* The paths handed to trim_path: 1 .. MaxLen rows with distinct timestamps.
TrimPaths ==
    {[k \in 1..n |-> MkRow(8 * (k - 1), <<AxisVec(0, 0)>>, AxisVec(0, 0), FALSE)] :
        n \in 1..MaxLen}

\* A process that calls trim_path any number of times.
InitTrim == Start(1, CodeConfig, <<>>)

NextTrim ==
    \/ \E p \in TrimPaths : TrimCall(p)
    \/ \E k \in 0..(MaxLen * SliderDen) : start_changed(k)
    \/ \E k \in 0..(MaxLen * SliderDen) : end_changed(k)
    \/ button_clicked
    \/ WindowClosed
    \/ TrimReturn

SpecTrim == InitTrim /\ [][NextTrim]_vars

(* ------------------------------ properties ----------------------------- *)
NumRows == Len(path)
Terminated == pc \in {"done", "error"}
\* _detect_segments has returned its list.
Detected == Len(segment_ends) = G_NUM_GATES
\* The time column as read by the corrector (0-based row).
TimeOf(r) == FMul(Cell(path, r, G_TIME_IDX), cfg.t_total)
\* Every row has the configured layout: G_NUM_GATES gates, tooltip, no rating.
ConfiguredLayout == \A r \in 1..NumRows : Len(path[r]) = G_POS_IDX + G_NUM_POS_DIMS
\* Every row has the configured layout followed by a rating column.
RatedLayout == \A r \in 1..NumRows : Len(path[r]) = G_POS_IDX + G_NUM_POS_DIMS + 1
\* The rows are too narrow to hold G_NUM_GATES gates and a tooltip position.
NarrowLayout == \A r \in 1..NumRows : Len(path[r]) < G_POS_IDX + G_NUM_POS_DIMS
StrictlyIncreasingTimes == \A r \in 1..(NumRows - 1) : FLt(TimeOf(r - 1), TimeOf(r))
ValidPath == ConfiguredLayout /\ StrictlyIncreasingTimes

\* Squared Euclidean distance of two 3-vectors.
SqDist(u, v) == SumSq(VSub(u, v))
\* Gate `gate` (0-based) as recorded in row r (0-based).
GateOf(r, gate) == Slice(path[r + 1], G_GATE_IDX + 3 * gate, G_GATE_IDX + 3 * gate + 3)
\* The non-last gates whose segment end is already in the list (0-based).
DetectedGates == {g \in 0..(Len(segment_ends) - 1) : g < G_NUM_GATES - 1}

\* C1: for a valid path of N >= 2 rows the corrector ends without failure
\* having emitted exactly N - 1 positions.
C1_CompletesWithAllPositions ==
    (ValidPath /\ NumRows >= 2 /\ Terminated)
        => (pc = "done" /\ err = "none" /\ Len(new_path) = NumRows - 1)

\* The passthrough scenario: times 0, 0.5, 1.0, one gate at the origin, tooltip
\* at (0,0,0), (1,0,0), (2,0,0).
ScenarioPath ==
    <<MkRow(0, <<Vec(0, 0, 0)>>, Vec(0, 0, 0), FALSE),
      MkRow(8, <<Vec(0, 0, 0)>>, Vec(1, 0, 0), FALSE),
      MkRow(16, <<Vec(0, 0, 0)>>, Vec(2, 0, 0), FALSE)>>

\* C2: with A = 0 and a_max = 100 the scenario path is passed through: the run
\* ends with the corrected positions (1,0,0), (2,0,0).
C2_ScenarioPassthrough ==
    (G_NUM_GATES = 1 /\ cfg = ScenarioConfig /\ path = ScenarioPath /\ Terminated)
        => (pc = "done" /\ new_path = <<Vec(1, 0, 0), Vec(2, 0, 0)>>)

\* C3: in every step on a valid path that emits a position, the acceleration the emitted
\* position is integrated with, (v_new - v_curr)/dt, has norm at most a_max.
C3_AccelerationBounded ==
    [][(ValidPath /\ pc = "correct" /\ new_path' # new_path)
          => FLe(VNorm(VDivS(VSub(v_curr', v_curr), dt')), cfg.a_max)]_vars

\* C4: for a path that encodes G_NUM_GATES gates (with or without a rating
\* column), once detection has ended it has returned G_NUM_GATES segment
\* ends, the last of them the number of rows.
C4_ReturnsAllSegmentEnds ==
    ((ConfiguredLayout \/ RatedLayout) /\ pc # "detect")
        => (Detected /\ segment_ends[G_NUM_GATES] = NumRows)

\* C5: the segment end of every non-last gate attains the minimum of the
\* distances the detector computed, and no earlier row attains it.
C5_FirstMinimumWins ==
    \A g \in DetectedGates :
        LET dist == DistColumn0(TooltipColumns(path), GateColumns(path, g))
            e == segment_ends[g + 1] + 1
            least == dist[e]
        IN  \A r \in 1..NumRows :
              LET d == dist[r]
              IN  FLe(least, d) /\ (r < e => d # least)

\* C5 witness: two rows tie for the minimum and the lower one is the segment end.
C5_TieResolved ==
    \E g \in DetectedGates :
        LET dist == DistColumn0(TooltipColumns(path), GateColumns(path, g))
            e == segment_ends[g + 1] + 1
        IN  \E r \in (e + 1)..NumRows : dist[r] = dist[e]

\* C6: no position is emitted for a step whose time difference is zero or
\* negative: every emitted step k -> k+1 has t_next > t_curr.
C6_NoEmissionOnDegenerateStep ==
    \A k \in 1..Len(new_path) : FLt(TimeOf(k - 1), TimeOf(k))

\* C7: on a path that encodes fewer gates than configured, detection never
\* returns segment ends and the corrector never starts.
C7_NarrowLayoutRejected ==
    NarrowLayout => (segment_ends = <<>> /\ pc \in {"detect", "error"})

\* C8: the segment ends detected on a valid path are non-decreasing, so the ranges walked by
\* rate_segments have non-negative length and cover every row exactly once.
C8_RangesPartitionPath ==
    (ValidPath /\ Detected) =>
        LET ranges == SegmentRanges(segment_ends)
        IN  /\ \A k \in 1..(Len(segment_ends) - 1) : segment_ends[k] <= segment_ends[k + 1]
            /\ \A k \in 1..Len(ranges) : ranges[k][1] <= ranges[k][2]
            /\ \A r \in 0..(NumRows - 1) :
                 Cardinality({k \in 1..Len(ranges) :
                                 ranges[k][1] <= r /\ r < ranges[k][2]}) = 1

\* C9 as stated: the segment end minimizes the distance between row r's tooltip
\* and the gate position recorded in the same row r.
C9_MinimizesSameSampleDistance ==
    \A g \in DetectedGates :
        LET e == segment_ends[g + 1]
            least == SqDist(PosSlice(path, e), GateOf(e, g))
        IN  \A r \in 0..(NumRows - 1) :
              FLe(least, SqDist(PosSlice(path, r), GateOf(r, g)))

\* C9 amended: the segment end minimizes the distance between row r's tooltip
\* and the gate position recorded in row 0.
C9_MinimizesDistanceToFirstSampleGate ==
    \A g \in DetectedGates :
        LET e == segment_ends[g + 1]
            least == SqDist(PosSlice(path, e), GateOf(0, g))
        IN  \A r \in 0..(NumRows - 1) :
              FLe(least, SqDist(PosSlice(path, r), GateOf(0, g)))

\* C9 witness: a gate whose recorded position differs between rows has its
\* segment end, and that end is not the row closest to the gate of its own row.
C9_MovingGateDetected ==
    \E g \in DetectedGates :
        /\ \E r \in 0..(NumRows - 1) : GateOf(r, g) # GateOf(0, g)
        /\ \E r \in 0..(NumRows - 1) :
             FLt(SqDist(PosSlice(path, r), GateOf(r, g)),
                 SqDist(PosSlice(path, segment_ends[g + 1]), GateOf(segment_ends[g + 1], g)))

\* A loop iteration over a row that has a successor has run.
StepTaken ==
    /\ Detected
    /\ \/ pc \in {"correct", "done"} /\ new_path # <<>>
       \/ pc = "error" /\ cur_gate = G_NUM_GATES
\* The row index of the last such iteration.
LastStep == IF pc = "error" THEN i ELSE Len(new_path) - 1
\* The segments whose end is not before row idx (0-based).
Candidates(idx) == {j \in 0..(Len(segment_ends) - 1) : idx <= segment_ends[j + 1]}

\* C10: the segment index of every step is the lowest j with i <= segment_ends[j],
\* 0 if there is none, and it is an index of the list.
C10_LowestSegmentChosen ==
    StepTaken =>
        /\ seg_idx \in 0..(Len(segment_ends) - 1)
        /\ IF Candidates(LastStep) = {} THEN seg_idx = 0
           ELSE /\ seg_idx \in Candidates(LastStep)
                /\ \A j \in Candidates(LastStep) : seg_idx <= j

\* C10 witness: the segment ends are out of order and a later step than the
\* first has looked its segment up.
C10_LookupOnUnorderedEnds ==
    /\ StepTaken
    /\ LastStep >= 1
    /\ \E k \in 1..(Len(segment_ends) - 1) : segment_ends[k] > segment_ends[k + 1]

\* A loop iteration that emits a position is taken from this state.
StepEmits ==
    /\ pc = "correct"
    /\ i < Len(path) - 1
    /\ StepError(path, segment_ends, i, x_path_offset) = "none"
\* The acceleration of line 67, before the clamp, of the iteration taken from
\* this state.
UnclampedAcceleration ==
    StepLocals(path, segment_ends, cfg, i, x_path_offset, v_curr).a_unclipped
\* x_curr of line 46 of the iteration taken from this state.
CurrentPosition == VAdd(PosSlice(path, i), x_path_offset)

\* C11: a step on a valid path whose unclamped acceleration is the zero vector
\* keeps a_new exactly zero, carries v_curr unchanged and emits
\* x_curr + v_curr*dt.
C11_ZeroAccelerationSkipsRescaling ==
    [][(ValidPath /\ StepEmits /\ new_path' # new_path
            /\ UnclampedAcceleration = ZeroVec)
          => /\ a_new' = ZeroVec
             /\ v_curr' = v_curr
             /\ new_path'[Len(new_path')] = VAdd(CurrentPosition, VScale(v_curr, dt'))]_vars

\* C12: once k >= 1 positions are emitted on a valid path, the recorded tooltip
\* position of sample k plus the cumulative offset equals the last emitted
\* position (so x_curr of the next step is that position); before the first
\* step the offset-adjusted position of sample 0 is the recorded one.
C12_OffsetTracksEmittedPosition ==
    (ValidPath /\ Detected /\ NumRows >= 1) =>
        IF new_path = <<>>
        THEN VEq(VAdd(PosSlice(path, 0), x_path_offset), PosSlice(path, 0))
        ELSE VEq(VAdd(PosSlice(path, Len(new_path)), x_path_offset),
                 new_path[Len(new_path)])

\* The row index line 55 reads x_target from in the last iteration.
TargetRow == segment_ends[seg_idx + 1]

\* C13: in every step on a valid path the row x_target is read from is a row
\* of the path, 0 .. len(path) - 1, and the read raises nothing.
C13_TargetRowInPath ==
    (ValidPath /\ StepTaken) =>
        (TargetRow \in 0..(NumRows - 1) /\ err # "IndexError")

\* C14: a call of trim_path that has returned gives back its input path when
\* the Trim button was not clicked during that call, and the rows
\* [start_index, end_index) of it when it was.
C14_TrimOnlyWhenClickedInThisCall ==
    (trim_pc = "idle") =>
        IF trim_clicked
        THEN trim_ret = RowSlice(trim_arg, g_start_trim_index, g_end_trim_index)
        ELSE trim_ret = trim_arg

====
